---- MODULE Spec2Model ----
(***************************************************************************)
(* Quantile ensemble inference of the hospital-admissions forecaster.      *)
(*                                                                         *)
(* One inference call is modelled step by step, for each entry point:      *)
(*   fn = "pe"  src/pipeline/ensemble_predictor.py  predict_ensemble       *)
(*   fn = "df"  src/pipeline/predict_pipeline.py    predict_df, in mode    *)
(*              "xgb", "tft" or "ensemble" (the last one delegates to      *)
(*              src/models/ensemble.py predict_ensemble)                    *)
(* optionally wrapped by the Flask handler POST /predict (api_server.py).  *)
(*                                                                         *)
(* Numbers are exact fixed-point values counted in units of 1e-6 (the      *)
(* consistency epsilon of predict_pipeline.py), so 1.0 is EpsInv units.    *)
(* The IEEE value NaN is the sentinel NaN; every arithmetic helper         *)
(* propagates it the way numpy does.  The boosters return float32 arrays:  *)
(* every value the model computes is a float32 value, except a value moved *)
(* by 1e-6, which float32 cannot tell from the value itself once the       *)
(* value reaches 32 (SubEps, AddEps).                                      *)
(***************************************************************************)
EXTENDS Integers, Sequences, FiniteSets, TLC

VARIABLES
    pc,                 \* position inside the call
    call,               \* [api, fn, mode]: who was called and how
    batch,              \* input rows, each [date, feat]
    weight_tft,         \* blend weight argument, in tenths
    models,             \* scorer name -> "unloaded" | "loaded" | "none" | "missing"
    store,              \* artifact format of the base boosters: "json" | "txt"
    X,                  \* derived feature matrix (one feature id per row)
    preds_low,          \* x10 / preds_low / xgb_preds_q10
    preds_med,          \* x50 / preds_med / xgb_preds_q50
    preds_up,           \* x90 / preds_up  / xgb_preds_q90
    spike_adj,          \* raw stage-1 correction
    spike_adj_scaled,   \* tier-scaled stage-1 correction
    extreme_adj,        \* raw stage-2 correction
    extreme_adj_scaled, \* tier-scaled stage-2 correction
    spike_adj_total,    \* sum of the scaled corrections
    tft_pred,           \* secondary median estimate
    median,             \* blended median (predict_ensemble's local)
    lower,              \* predict_ensemble's local
    upper,              \* predict_ensemble's local
    out,                \* returned records [date, lower, median, upper]
    error,              \* "" or the exception that ended the call
    http,               \* response of POST /predict: [status, count, error]
    log,                \* loads, scorer invocations and percentile computations, in order
    previous,           \* the call the process finished before this one, if any
    request,            \* body of the POST /predict request: [body, weight, mode_ok, columns_ok]
    client,             \* PredictionClient.predict: [pc, health, attempt, posts, slept, median, raised, last_error]
    monitor             \* run_monitor_agent: [pc, inputs, exception, answer, output, fallback]

vars == <<pc, call, batch, weight_tft, models, store, X, preds_low, preds_med,
          preds_up, spike_adj, spike_adj_scaled, extreme_adj, extreme_adj_scaled,
          spike_adj_total, tft_pred, median, lower, upper, out, error, http, log,
          previous, request, client, monitor>>

----------------------------------------------------------------------------
(* Bounds of the model *)

\* longest freely chosen prefix of a batch
MaxPattern == 2

\* inference calls made one after the other in one process
MaxCalls == 2

----------------------------------------------------------------------------
(* Program constants, in source units *)

\* 1 / 1e-6: the consistency epsilon is one unit
EpsInv == 1000000

\* len(...) > 10 selects percentile tiers
SmallBatchMax == 10

\* widening fallback threshold for small batches
WidenAbs == 200

\* stage-1 absolute fallback thresholds
SpikeAbs1 == 30
SpikeAbs2 == 60

\* stage-2 absolute fallback thresholds
ExtremeAbs1 == 20
ExtremeAbs2 == 40

\* default blend weight 0.6, in tenths
DefaultWeight == 6

\* the magnitude from which half the spacing of float32 values exceeds 1e-6:
\* 2^5, where the spacing becomes 2^(5-23) = 3.8e-6
F32Absorb == 32

\* IEEE NaN as produced by a scorer; outside the range of every finite value
NaN == -2147000000

U(n) == n * EpsInv

----------------------------------------------------------------------------
(* numpy arithmetic on scalars *)

IsNaN(a) == a = NaN

Add(a, b) == IF IsNaN(a) \/ IsNaN(b) THEN NaN ELSE a + b

Sub(a, b) == IF IsNaN(a) \/ IsNaN(b) THEN NaN ELSE a - b

\* a * (num/den); every value the model multiplies is a multiple of den
MulFrac(a, num, den) == IF IsNaN(a) THEN NaN ELSE (a \div den) * num

\* a > b as numpy evaluates it: False when either side is NaN
Gt(a, b) == ~IsNaN(a) /\ ~IsNaN(b) /\ a > b

\* np.minimum / np.maximum propagate NaN
Minimum(a, b) == IF IsNaN(a) \/ IsNaN(b) THEN NaN ELSE IF a < b THEN a ELSE b
Maximum(a, b) == IF IsNaN(a) \/ IsNaN(b) THEN NaN ELSE IF a > b THEN a ELSE b

\* float32(m - 1e-6) and float32(m + 1e-6) for a float32 value m, rounded to
\* nearest: from magnitude 32 on the result is m itself (at exactly 32 the
\* spacing toward zero is still 1.9e-6 and the value moves); below, the value
\* moves by at least 1e-6, one unit at the model's resolution
SubEps(m) ==
    IF IsNaN(m) THEN NaN
    ELSE IF m > U(F32Absorb) \/ m <= -U(F32Absorb) THEN m
    ELSE m - 1

AddEps(m) ==
    IF IsNaN(m) THEN NaN
    ELSE IF m >= U(F32Absorb) \/ m < -U(F32Absorb) THEN m
    ELSE m + 1

Range(s) == {s[i] : i \in DOMAIN s}

Zeros(n) == [i \in 1..n |-> 0]

VecAdd(a, b) == [i \in DOMAIN a |-> Add(a[i], b[i])]

\* arr[mask] *= num/den
MulWhere(arr, mask, num, den) ==
    [i \in DOMAIN arr |-> IF mask[i] THEN MulFrac(arr[i], num, den) ELSE arr[i]]

\* arr > threshold, elementwise
MaskGt(arr, t) == [i \in DOMAIN arr |-> Gt(arr[i], t)]

\* np.any(mask)
AnyTrue(mask) == \E i \in DOMAIN mask : mask[i]

\* the element of rank k (0-based) of s in ascending order
Kth(s, k) ==
    CHOOSE v \in Range(s) :
        /\ Cardinality({i \in DOMAIN s : s[i] < v}) <= k
        /\ k < Cardinality({i \in DOMAIN s : s[i] <= v})

\* np.percentile(s, q), linear interpolation; NaN when s holds a NaN
Percentile(s, q) ==
    IF \E i \in DOMAIN s : IsNaN(s[i]) THEN NaN
    ELSE LET n   == Len(s)
             pos == (n - 1) * q
             lo  == pos \div 100
             fr  == pos % 100
             hi  == IF lo + 1 < n THEN lo + 1 ELSE lo
             a   == Kth(s, lo)
             b   == Kth(s, hi)
         IN  a + ((b - a) \div 100) * fr

----------------------------------------------------------------------------
(* The scorers: what each loaded model returns for a feature vector.       *)
(* A feature vector is identified by an id; the tables give the raw output *)
(* of every scorer on it, in whole source units.                           *)
(*   1: ordered quantiles, no correction signal                            *)
(*   2: ordered quantiles, stage-1 signal above both fallback thresholds   *)
(*   3: inverted quantiles (q10 > q50 > q90), mid-tier signals             *)
(*   4: median above the widening fallback, q90 < q50, negative stage-1    *)
(*      signal, stage-2 signal above both thresholds, secondary model NaN  *)
(*   5: an ordinary row with small correction signals                      *)
(*   6: inverted quantiles around a median below 32, no correction signal  *)
(*   7: an ordinary row whose correction signals are negative              *)

Q10Raw     == <<80, 80, 130, 200, 90, 11, 90>>
Q50Raw     == <<120, 120, 120, 240, 100, 10, 100>>
Q90Raw     == <<160, 160, 100, 230, 110, 9, 110>>
SpikeRaw   == <<0, 70, 40, -20, 10, 0, -30>>
ExtremeRaw == <<0, 10, 30, 50, 5, 0, -30>>
TftRaw     == <<U(110), U(150), U(90), NaN, U(100), U(20), U(100)>>

\* the ordinary row with negative correction signals
NegPadFeature == 7

\* the rows a batch is freely composed of
FeatureIds == DOMAIN Q50Raw \ {NegPadFeature}

\* scorer.predict(dmat): one value per row, in row order
ScoreQ10(Xm)     == [i \in DOMAIN Xm |-> U(Q10Raw[Xm[i]])]
ScoreQ50(Xm)     == [i \in DOMAIN Xm |-> U(Q50Raw[Xm[i]])]
ScoreQ90(Xm)     == [i \in DOMAIN Xm |-> U(Q90Raw[Xm[i]])]
ScoreSpike(Xm)   == [i \in DOMAIN Xm |-> U(SpikeRaw[Xm[i]])]
ScoreExtreme(Xm) == [i \in DOMAIN Xm |-> U(ExtremeRaw[Xm[i]])]
ScoreTft(Xm)     == [i \in DOMAIN Xm |-> TftRaw[Xm[i]]]

----------------------------------------------------------------------------
(* Inputs *)

ScorerNames == {"q10", "q50", "q90", "spike", "extreme", "tft"}

Modes == {"xgb", "tft", "ensemble"}

\* POST /predict dispatches mode "ensemble" to ensemble_predictor.predict_ensemble
\* and the other modes to predict_df; both functions can also be called directly
Calls ==
    {[api |-> TRUE,  fn |-> "pe", mode |-> "ensemble"]}
    \cup {[api |-> TRUE,  fn |-> "df", mode |-> m] : m \in {"xgb", "tft"}}
    \cup {[api |-> FALSE, fn |-> "pe", mode |-> "ensemble"]}
    \cup {[api |-> FALSE, fn |-> "df", mode |-> m] : m \in Modes}

\* weight_tft is float(data.get("weight_tft", DEFAULT_WEIGHT_TFT)) or the
\* caller's argument; nothing bounds it: 0.6 and 1.5
Weights == {DefaultWeight, 15}

Patterns == UNION {[1..k -> FeatureIds] : k \in 1..MaxPattern}

\* rows appended to a pattern: none, or enough ordinary rows to reach the
\* small-batch limit and the sizes around twice the limit
PadLens == {0, SmallBatchMax - 1, 2 * SmallBatchMax - 1, 2 * SmallBatchMax}

\* the ordinary row
PadFeature == 5

\* a batch: the pattern followed by pad ordinary rows; dates are distinct and
\* either ascending or descending
MakeBatch(p, pad, asc) ==
    LET n == Len(p) + pad
    IN  [i \in 1..n |->
            [date |-> IF asc THEN i ELSE n + 1 - i,
             feat |-> IF i <= Len(p) THEN p[i] ELSE PadFeature]]

Batches == {MakeBatch(p, pad, asc) : p \in Patterns, pad \in PadLens, asc \in BOOLEAN}

----------------------------------------------------------------------------
(* Helpers of the inference code *)

\* a derivation that hands the rows over in reverse order
FeatureMatrixReversed(b) == [i \in DOMAIN b |-> b[Len(b) + 1 - i].feat]

\* build_features / _prepare_features / feature_engineering_xgb: one feature
\* vector per input row, in input order
FeatureMatrix(b) == [i \in DOMAIN b |-> b[i].feat]

\* stage-1 tiers with the percentile branch taken from 10 rows on
ScaleSpikeOffByOne(vals, adj) ==
    IF Len(adj) >= SmallBatchMax
    THEN LET s1 == MulWhere(vals, MaskGt(adj, Percentile(adj, 90)), 2, 1)
             s2 == MulWhere(s1, MaskGt(adj, Percentile(adj, 95)), 3, 2)
         IN  MulWhere(s2, MaskGt(adj, Percentile(adj, 99)), 4, 3)
    ELSE LET s1 == MulWhere(vals, MaskGt(adj, U(SpikeAbs1)), 2, 1)
         IN  MulWhere(s1, MaskGt(adj, U(SpikeAbs2)), 2, 1)

\* stage-1 tiers whose top tier repeats the factor of the tier below, 3.0x
\* in total instead of 4.0x
ScaleSpikeFlatTop(vals, adj) ==
    IF Len(adj) > SmallBatchMax
    THEN LET s1 == MulWhere(vals, MaskGt(adj, Percentile(adj, 90)), 2, 1)
             s2 == MulWhere(s1, MaskGt(adj, Percentile(adj, 95)), 3, 2)
         IN  MulWhere(s2, MaskGt(adj, Percentile(adj, 99)), 1, 1)
    ELSE LET s1 == MulWhere(vals, MaskGt(adj, U(SpikeAbs1)), 2, 1)
         IN  MulWhere(s1, MaskGt(adj, U(SpikeAbs2)), 2, 1)

\* stage-1 tiers without the middle tier: the top tier ends at 2 * 4/3
ScaleSpikeSkipMid(vals, adj) ==
    IF Len(adj) > SmallBatchMax
    THEN LET s1 == MulWhere(vals, MaskGt(adj, Percentile(adj, 90)), 2, 1)
         IN  MulWhere(s1, MaskGt(adj, Percentile(adj, 99)), 4, 3)
    ELSE LET s1 == MulWhere(vals, MaskGt(adj, U(SpikeAbs1)), 2, 1)
         IN  MulWhere(s1, MaskGt(adj, U(SpikeAbs2)), 2, 1)

\* stage-1 tiers that use the absolute thresholds for every batch size
ScaleSpikeAbsolute(vals, adj) ==
    LET s1 == MulWhere(vals, MaskGt(adj, U(SpikeAbs1)), 2, 1)
    IN  MulWhere(s1, MaskGt(adj, U(SpikeAbs2)), 2, 1)

\* stage-1 tiers: the scaling is applied to vals, the masks come from adj
ScaleSpikeOn(vals, adj) ==
    IF Len(adj) > SmallBatchMax
    THEN LET s1 == MulWhere(vals, MaskGt(adj, Percentile(adj, 90)), 2, 1)
             s2 == MulWhere(s1, MaskGt(adj, Percentile(adj, 95)), 3, 2)
         IN  MulWhere(s2, MaskGt(adj, Percentile(adj, 99)), 4, 3)
    ELSE LET s1 == MulWhere(vals, MaskGt(adj, U(SpikeAbs1)), 2, 1)
         IN  MulWhere(s1, MaskGt(adj, U(SpikeAbs2)), 2, 1)

ScaleSpike(adj) == ScaleSpikeOn(adj, adj)

\* stage-2 tiers that reuse the factors of stage 1
ScaleExtremeAsSpike(vals, adj) ==
    IF Len(adj) > SmallBatchMax
    THEN LET s1 == MulWhere(vals, MaskGt(adj, Percentile(adj, 90)), 2, 1)
             s2 == MulWhere(s1, MaskGt(adj, Percentile(adj, 95)), 3, 2)
         IN  MulWhere(s2, MaskGt(adj, Percentile(adj, 99)), 4, 3)
    ELSE LET s1 == MulWhere(vals, MaskGt(adj, U(ExtremeAbs1)), 2, 1)
         IN  MulWhere(s1, MaskGt(adj, U(ExtremeAbs2)), 2, 1)

\* stage-2 tiers: factors 5.0, 6.5/5.0 and 8.0/6.5, or 5.0 and 1.6
ScaleExtremeOn(vals, adj) ==
    IF Len(adj) > SmallBatchMax
    THEN LET s1 == MulWhere(vals, MaskGt(adj, Percentile(adj, 90)), 5, 1)
             s2 == MulWhere(s1, MaskGt(adj, Percentile(adj, 95)), 13, 10)
         IN  MulWhere(s2, MaskGt(adj, Percentile(adj, 99)), 16, 13)
    ELSE LET s1 == MulWhere(vals, MaskGt(adj, U(ExtremeAbs1)), 5, 1)
         IN  MulWhere(s1, MaskGt(adj, U(ExtremeAbs2)), 8, 5)

ScaleExtreme(adj) == ScaleExtremeOn(adj, adj)

\* the adjustment block entered unconditionally
AlwaysAdjust(total) == TRUE

\* np.any(spike_adj_total != 0)
AnyNonZero(total) == \E i \in DOMAIN total : total[i] # 0

\* rows whose band is widened
ExtremePredMask(med) ==
    IF Len(med) > SmallBatchMax
    THEN MaskGt(med, Percentile(med, 90))
    ELSE MaskGt(med, U(WidenAbs))

\* a widening that is not gated by the selection mask
WidenLowAll(lo, up, mask) ==
    [i \in DOMAIN lo |->
        Sub(MulFrac(Add(up[i], lo[i]), 1, 2), MulFrac(Sub(up[i], lo[i]), 3, 4))]

\* a widening that doubles the band instead of adding half of it
WidenUpDouble(lo, up, mask) ==
    [i \in DOMAIN up |->
        IF mask[i]
        THEN Add(MulFrac(Add(up[i], lo[i]), 1, 2), Sub(up[i], lo[i]))
        ELSE up[i]]

\* center -/+ band_width * 0.75
WidenLow(lo, up, mask) ==
    [i \in DOMAIN lo |->
        IF mask[i]
        THEN Sub(MulFrac(Add(up[i], lo[i]), 1, 2), MulFrac(Sub(up[i], lo[i]), 3, 4))
        ELSE lo[i]]

WidenUp(lo, up, mask) ==
    [i \in DOMAIN up |->
        IF mask[i]
        THEN Add(MulFrac(Add(up[i], lo[i]), 1, 2), MulFrac(Sub(up[i], lo[i]), 3, 4))
        ELSE up[i]]

\* w_tft * tft + (1 - w_tft) * xgb, the weight in tenths
Blend(w, tft, xgb) ==
    [i \in DOMAIN xgb |-> Add(MulFrac(tft[i], w, 10), MulFrac(xgb[i], 10 - w, 10))]

\* the returned data frame: one record per position, dates taken from df["date"]
Frame(b, lo, med, up) ==
    [i \in DOMAIN lo |->
        [date |-> b[i].date, lower |-> lo[i], median |-> med[i], upper |-> up[i]]]

LoadEv(n)  == <<"load", n>>
ScoreEv(n) == <<"score", n>>
PctEv(n)   == <<"percentile", n>>

\* the percentile computations of one tiering block
TierPcts(n, who) == IF n > SmallBatchMax THEN <<PctEv(who), PctEv(who), PctEv(who)>> ELSE <<>>

----------------------------------------------------------------------------
(* State after construction: a call has been made and nothing has run yet *)

NoResponse == [status |-> 0, count |-> 0, error |-> FALSE]

\* PredictionClient.predict has not been called
IdleClient ==
    [pc |-> "idle", health |-> "unchecked", attempt |-> 0, posts |-> <<>>,
     slept |-> <<>>, median |-> NaN, raised |-> "", last_error |-> ""]

\* run_monitor_agent has not been called
IdleMonitor ==
    [pc |-> "idle", inputs |-> [aqi |-> 0, festival_score |-> 0, weather_risk |-> 0],
     exception |-> "", answer |-> <<>>, output |-> <<>>, fallback |-> FALSE]

\* a request body that passes every check of POST /predict: a JSON object
\* with "data", a numeric weight_tft, a known mode and all required columns
AcceptedRequest ==
    [body |-> "data", weight |-> "number", mode_ok |-> TRUE, columns_ok |-> TRUE]

\* no call was made before this one
NoPrevious ==
    [index |-> 0, call |-> [api |-> FALSE, fn |-> "", mode |-> ""], batch |-> <<>>,
     models |-> [n \in ScorerNames |-> "unloaded"], store |-> "unknown",
     log |-> <<>>, spike_adj_scaled |-> <<>>, out |-> <<>>, failed |-> FALSE]

Init ==
    /\ pc = "start"
    /\ call \in Calls
    /\ batch \in Batches
    /\ weight_tft \in Weights
    /\ models = [n \in ScorerNames |-> "unloaded"]
    /\ store = "unknown"
    /\ X = <<>>
    /\ preds_low = <<>>
    /\ preds_med = <<>>
    /\ preds_up = <<>>
    /\ spike_adj = <<>>
    /\ spike_adj_scaled = <<>>
    /\ extreme_adj = <<>>
    /\ extreme_adj_scaled = <<>>
    /\ spike_adj_total = <<>>
    /\ tft_pred = <<>>
    /\ median = <<>>
    /\ lower = <<>>
    /\ upper = <<>>
    /\ out = <<>>
    /\ error = ""
    /\ http = NoResponse
    /\ log = <<>>
    /\ previous = NoPrevious
    /\ request = AcceptedRequest
    /\ client = IdleClient
    /\ monitor = IdleMonitor

\* the call runs the cascade of _predict_xgb / ensemble_predictor.predict_ensemble
Cascade == call.fn = "pe" \/ call.mode \in {"xgb", "tft"}

\* the call is models.ensemble.predict_ensemble, reached through predict_df
DfEnsemble == call.fn = "df" /\ call.mode = "ensemble"

\* a failure that is swallowed: the call goes on as if the step had succeeded
ContinueAfter(exc) ==
    /\ pc' = "base_loaded"
    /\ error' = error
    /\ out' = out

\* a failure after which the failed step is attempted again
RaiseAndRetry(exc) ==
    /\ pc' = pc
    /\ error' = error
    /\ out' = out

\* raise exc: the call ends without a result
Raise(exc) ==
    /\ pc' = "failed"
    /\ error' = exc
    /\ out' = <<>>

----------------------------------------------------------------------------
(* api_server.py: the checks of POST /predict before the predictor is called *)

\* request bodies: no or an empty JSON value, a JSON object without "data",
\* a JSON object with "data"
Bodies == {"empty", "no_data", "data"}

\* the weight_tft field: absent (the default is used), a number, a text that
\* float() rejects with ValueError, null, which float() rejects with TypeError
WeightFields == {"absent", "number", "text", "null"}

Requests ==
    [body : Bodies, weight : WeightFields, mode_ok : BOOLEAN, columns_ok : BOOLEAN]

\* the response the checks end in, in the order of the handler: the "data"
\* field, float(weight_tft) inside the try block, the mode, the required
\* columns; status 0: every check passed and the predictor is called
Validate(r) ==
    IF r.body # "data" THEN [status |-> 400, error |-> "Missing 'data' field"]
    ELSE IF r.weight = "text" THEN [status |-> 400, error |-> "ValueError"]
    ELSE IF r.weight = "null" THEN [status |-> 500, error |-> "TypeError"]
    ELSE IF ~r.mode_ok THEN [status |-> 400, error |-> "Invalid mode"]
    ELSE IF ~r.columns_ok THEN [status |-> 400, error |-> "Missing required columns"]
    ELSE [status |-> 0, error |-> ""]

\* a check fails: the handler returns the error response
ApiReject ==
    /\ pc = "start"
    /\ call.api
    /\ Validate(request).status # 0
    /\ http' = [status |-> Validate(request).status, count |-> 0, error |-> TRUE]
    /\ error' = Validate(request).error
    /\ pc' = "rejected"
    /\ UNCHANGED <<call, batch, weight_tft, models, store, X, preds_low, preds_med,
                   preds_up, spike_adj, spike_adj_scaled, extreme_adj,
                   extreme_adj_scaled, spike_adj_total, tft_pred, median, lower,
                   upper, out, log>>
    /\ UNCHANGED <<previous, request, client, monitor>>

----------------------------------------------------------------------------
(* Feature derivation *)

\* predict_ensemble step 1, _prepare_features, and feature_engineering_xgb in
\* models.ensemble, which raises ValueError when an engineered feature (the
\* admission lags) is not among the input columns
BuildFeatures ==
    /\ pc = "start"
    /\ call.api => Validate(request).status = 0
    /\ \E has_lags \in BOOLEAN :
        IF DfEnsemble /\ ~has_lags
        THEN /\ Raise("ValueError")
             /\ UNCHANGED X
        ELSE /\ X' = FeatureMatrix(batch)
             /\ pc' = "features"
             /\ UNCHANGED <<error, out>>
    /\ UNCHANGED <<call, batch, weight_tft, models, store, preds_low, preds_med,
                   preds_up, spike_adj, spike_adj_scaled, extreme_adj,
                   extreme_adj_scaled, spike_adj_total, tft_pred, median, lower,
                   upper, http, log>>
    /\ UNCHANGED <<previous, request, client, monitor>>

----------------------------------------------------------------------------
(* The three mandatory base scorers *)

\* order of the load_model calls
LoadOrder ==
    IF call.fn = "df" /\ call.mode \in {"xgb", "tft"}
    THEN <<"q50", "q10", "q90">>
    ELSE <<"q10", "q50", "q90">>

\* formats a base artifact can be found in: _load_xgb_models names the .json
\* files, the other callers name .model and load_model resolves it to .json
\* (XGBoost) or .txt (LightGBM)
Formats == IF call.fn = "pe" THEN {"json"} ELSE {"json", "txt"}

\* load_model raises FileNotFoundError at the first artifact that is not found;
\* k is the number of artifacts found before it (3: all are found)
LoadBase ==
    /\ pc = "features"
    /\ \E k \in 0..3, fmt \in Formats :
        /\ models' = [n \in ScorerNames |->
                        IF \E j \in 1..k : LoadOrder[j] = n THEN "loaded"
                        ELSE IF k < 3 /\ LoadOrder[k + 1] = n THEN "missing"
                        ELSE models[n]]
        /\ log' = log \o [j \in 1..(IF k < 3 THEN k + 1 ELSE 3) |-> LoadEv(LoadOrder[j])]
        /\ store' = fmt
        /\ IF k < 3
           THEN Raise("FileNotFoundError")
           ELSE /\ pc' = "base_loaded"
                /\ UNCHANGED <<error, out>>
    /\ UNCHANGED <<call, batch, weight_tft, X, preds_low, preds_med, preds_up,
                   spike_adj, spike_adj_scaled, extreme_adj, extreme_adj_scaled,
                   spike_adj_total, tft_pred, median, lower, upper, http>>
    /\ UNCHANGED <<previous, request, client, monitor>>

\* order of the predict calls
ScoreOrder ==
    IF call.fn = "df" /\ call.mode \in {"xgb", "tft"}
    THEN <<"q50", "q10", "q90">>
    ELSE <<"q10", "q50", "q90">>

\* the booster accepts what the caller passes: an XGBoost booster needs the
\* DMatrix that the cascade builds, models.ensemble passes a numpy array
InputAccepted ==
    IF DfEnsemble THEN store = "txt" ELSE store = "json"

\* fixed margin offsets of the base quantile bank; predict_ensemble of
\* ensemble_predictor.py applies none here
LowOffset == IF call.fn = "pe" THEN 0 ELSE EpsInv \div 2
UpOffset  == IF call.fn = "pe" THEN 0 ELSE EpsInv \div 2

BaseLow(Xm) == [i \in DOMAIN Xm |-> Sub(ScoreQ10(Xm)[i], LowOffset)]
BaseMed(Xm) == ScoreQ50(Xm)
BaseUp(Xm)  == [i \in DOMAIN Xm |-> Add(ScoreQ90(Xm)[i], UpOffset)]

\* the three predict calls; the first one raises when the booster does not
\* accept the input or was trained on another feature width
ScoreBase ==
    /\ pc = "base_loaded"
    /\ \E width_ok \in BOOLEAN :
        IF InputAccepted /\ width_ok
        THEN /\ preds_low' = BaseLow(X)
             /\ preds_med' = BaseMed(X)
             /\ preds_up' = BaseUp(X)
             /\ spike_adj_total' = Zeros(Len(X))
             /\ log' = log \o [j \in 1..3 |-> ScoreEv(ScoreOrder[j])]
             /\ pc' = "base_scored"
             /\ UNCHANGED <<error, out>>
        ELSE /\ Raise(IF InputAccepted THEN "ValueError" ELSE "TypeError")
             /\ log' = Append(log, ScoreEv(ScoreOrder[1]))
             /\ UNCHANGED <<preds_low, preds_med, preds_up, spike_adj_total>>
    /\ UNCHANGED <<call, batch, weight_tft, models, store, X, spike_adj,
                   spike_adj_scaled, extreme_adj, extreme_adj_scaled, tft_pred,
                   median, lower, upper, http>>
    /\ UNCHANGED <<previous, request, client, monitor>>

----------------------------------------------------------------------------
(* Spike correction cascade (the same code in ensemble_predictor.py and in *)
(* predict_pipeline.py)                                                    *)

\* _load_spike_model and first-stage block: the loader returns None when the
\* artifact does not exist and when load_model raises
Stage1 ==
    /\ pc = "base_scored"
    /\ Cascade
    /\ \E handle \in {"loaded", "none"} :
        /\ models' = [models EXCEPT !["spike"] = handle]
        /\ IF handle = "loaded"
           THEN /\ spike_adj' = ScoreSpike(X)
                /\ spike_adj_scaled' = ScaleSpike(spike_adj')
                /\ spike_adj_total' = VecAdd(spike_adj_total, spike_adj_scaled')
                /\ log' = log \o <<LoadEv("spike"), ScoreEv("spike")>>
                              \o TierPcts(Len(X), "spike")
           ELSE /\ log' = Append(log, LoadEv("spike"))
                /\ UNCHANGED <<spike_adj, spike_adj_scaled, spike_adj_total>>
    /\ pc' = "stage1"
    /\ UNCHANGED <<call, batch, weight_tft, store, X, preds_low, preds_med, preds_up,
                   extreme_adj, extreme_adj_scaled, tft_pred, median, lower, upper,
                   out, error, http>>
    /\ UNCHANGED <<previous, request, client, monitor>>

\* _load_extreme_spike_model and second-stage block
Stage2 ==
    /\ pc = "stage1"
    /\ \E handle \in {"loaded", "none"} :
        /\ models' = [models EXCEPT !["extreme"] = handle]
        /\ IF handle = "loaded"
           THEN /\ extreme_adj' = ScoreExtreme(X)
                /\ extreme_adj_scaled' = ScaleExtreme(extreme_adj')
                /\ spike_adj_total' = VecAdd(spike_adj_total, extreme_adj_scaled')
                /\ log' = log \o <<LoadEv("extreme"), ScoreEv("extreme")>>
                              \o TierPcts(Len(X), "extreme")
           ELSE /\ log' = Append(log, LoadEv("extreme"))
                /\ UNCHANGED <<extreme_adj, extreme_adj_scaled, spike_adj_total>>
    /\ pc' = "stage2"
    /\ UNCHANGED <<call, batch, weight_tft, store, X, preds_low, preds_med, preds_up,
                   spike_adj, spike_adj_scaled, tft_pred, median, lower, upper,
                   out, error, http>>
    /\ UNCHANGED <<previous, request, client, monitor>>

\* if np.any(spike_adj_total != 0): add the total to the three arrays;
\* otherwise the whole block, widening included, is skipped
ApplyAdjustment ==
    /\ pc = "stage2"
    /\ IF AnyNonZero(spike_adj_total)
       THEN /\ preds_low' = VecAdd(preds_low, spike_adj_total)
            /\ preds_med' = VecAdd(preds_med, spike_adj_total)
            /\ preds_up' = VecAdd(preds_up, spike_adj_total)
            /\ pc' = "added"
       ELSE /\ pc' = "corrected"
            /\ UNCHANGED <<preds_low, preds_med, preds_up>>
    /\ UNCHANGED <<call, batch, weight_tft, models, store, X, spike_adj,
                   spike_adj_scaled, extreme_adj, extreme_adj_scaled,
                   spike_adj_total, tft_pred, median, lower, upper, out, error,
                   http, log>>
    /\ UNCHANGED <<previous, request, client, monitor>>

\* band widening for extreme predictions
Widen ==
    /\ pc = "added"
    /\ LET mask == ExtremePredMask(preds_med)
       IN  IF AnyTrue(mask)
           THEN /\ preds_low' = WidenLow(preds_low, preds_up, mask)
                /\ preds_up' = WidenUp(preds_low, preds_up, mask)
           ELSE UNCHANGED <<preds_low, preds_up>>
    /\ log' = IF Len(X) > SmallBatchMax THEN Append(log, PctEv("median")) ELSE log
    /\ pc' = "corrected"
    /\ UNCHANGED <<call, batch, weight_tft, models, store, X, preds_med, spike_adj,
                   spike_adj_scaled, extreme_adj, extreme_adj_scaled,
                   spike_adj_total, tft_pred, median, lower, upper, out, error,
                   http>>
    /\ UNCHANGED <<previous, request, client, monitor>>

----------------------------------------------------------------------------
(* predict_pipeline.py: _predict_xgb's clamp and the end of predict_df *)

\* preds_med -/+ 1e-6
ClampLow(lo, med) == [i \in DOMAIN lo |-> Minimum(lo[i], SubEps(med[i]))]
ClampUp(up, med)  == [i \in DOMAIN up |-> Maximum(up[i], AddEps(med[i]))]

Clamp ==
    /\ pc = "corrected"
    /\ call.fn = "df"
    /\ preds_low' = ClampLow(preds_low, preds_med)
    /\ preds_up' = ClampUp(preds_up, preds_med)
    /\ pc' = "clamped"
    /\ UNCHANGED <<call, batch, weight_tft, models, store, X, preds_med, spike_adj,
                   spike_adj_scaled, extreme_adj, extreme_adj_scaled,
                   spike_adj_total, tft_pred, median, lower, upper, out, error,
                   http, log>>
    /\ UNCHANGED <<previous, request, client, monitor>>

\* predict_df, mode "xgb": the frame is built from _predict_xgb's result
DfReturnXgb ==
    /\ pc = "clamped"
    /\ call.mode = "xgb"
    /\ out' = Frame(batch, preds_low, preds_med, preds_up)
    /\ pc' = "returned"
    /\ UNCHANGED <<call, batch, weight_tft, models, store, X, preds_low, preds_med,
                   preds_up, spike_adj, spike_adj_scaled, extreme_adj,
                   extreme_adj_scaled, spike_adj_total, tft_pred, median, lower,
                   upper, error, http, log>>
    /\ UNCHANGED <<previous, request, client, monitor>>

\* the weight predict_df blends with in mode "tft": 0.6, whatever weight_tft is
DfTftWeight == 6

\* predict_df, mode "tft": _predict_tft loads models/global_tft.pt (torch.load
\* and load_state_dict raise when it is missing or does not fit), then the
\* median is blended and the frame is built
DfTft ==
    /\ pc = "clamped"
    /\ call.mode = "tft"
    /\ \E st \in {"loaded", "missing", "corrupt"} :
        /\ models' = [models EXCEPT !["tft"] = st]
        /\ IF st = "loaded"
           THEN /\ tft_pred' = ScoreTft(X)
                /\ preds_med' = Blend(DfTftWeight, tft_pred', preds_med)
                /\ out' = Frame(batch, preds_low, preds_med', preds_up)
                /\ log' = log \o <<LoadEv("tft"), ScoreEv("tft")>>
                /\ pc' = "returned"
                /\ UNCHANGED error
           ELSE /\ Raise(IF st = "missing" THEN "FileNotFoundError" ELSE "RuntimeError")
                /\ log' = Append(log, LoadEv("tft"))
                /\ UNCHANGED <<tft_pred, preds_med>>
    /\ UNCHANGED <<call, batch, weight_tft, store, X, preds_low, preds_up, spike_adj,
                   spike_adj_scaled, extreme_adj, extreme_adj_scaled,
                   spike_adj_total, median, lower, upper, http>>
    /\ UNCHANGED <<previous, request, client, monitor>>

----------------------------------------------------------------------------
(* ensemble_predictor.py: secondary median model and final consistency *)

\* the frame predict_ensemble returns when no secondary median model is used
XgbOnlyFrame(b, x10, x50, x90) == Frame(b, x10, x50, x90)

\* _load_tft_global: None when no artifact exists or the state_dict does not
\* fit the network ("none"); a model when the artifact holds a module or a
\* fitting state_dict ("loaded"); torch.load raising anything but TypeError is
\* not caught ("corrupt")
PeLoadTft ==
    /\ pc = "corrected"
    /\ call.fn = "pe"
    /\ \E st \in {"loaded", "none", "corrupt"} :
        /\ models' = [models EXCEPT !["tft"] = st]
        /\ log' = Append(log, LoadEv("tft"))
        /\ CASE st = "loaded" ->
                  /\ pc' = "tft_loaded"
                  /\ UNCHANGED <<out, error>>
             [] st = "none" ->
                  /\ out' = XgbOnlyFrame(batch, preds_low, preds_med, preds_up)
                  /\ pc' = "returned"
                  /\ UNCHANGED error
             [] OTHER -> Raise("RuntimeError")
    /\ UNCHANGED <<call, batch, weight_tft, store, X, preds_low, preds_med, preds_up,
                   spike_adj, spike_adj_scaled, extreme_adj, extreme_adj_scaled,
                   spike_adj_total, tft_pred, median, lower, upper, http>>
    /\ UNCHANGED <<previous, request, client, monitor>>

\* steps 4 and 5: TFT inference and the blend of the medians
PeBlend ==
    /\ pc = "tft_loaded"
    /\ tft_pred' = ScoreTft(X)
    /\ median' = Blend(weight_tft, tft_pred', preds_med)
    /\ log' = Append(log, ScoreEv("tft"))
    /\ pc' = "blended"
    /\ UNCHANGED <<call, batch, weight_tft, models, store, X, preds_low, preds_med,
                   preds_up, spike_adj, spike_adj_scaled, extreme_adj,
                   extreme_adj_scaled, spike_adj_total, lower, upper, out, error,
                   http>>
    /\ UNCHANGED <<previous, request, client, monitor>>

\* margins of step 6: 1.5 on the band, 2.0 around the median, 0.1 between the ends
PeBandMargin == (3 * EpsInv) \div 2
PeMedMargin  == 2 * EpsInv
PeGap        == EpsInv \div 10

PeLower(x10, med) ==
    [i \in DOMAIN x10 |-> Minimum(Sub(x10[i], PeBandMargin), Sub(med[i], PeMedMargin))]

PeUpper(x90, med, lo) ==
    [i \in DOMAIN x90 |->
        Maximum(Maximum(Add(x90[i], PeBandMargin), Add(med[i], PeMedMargin)),
                Add(lo[i], PeGap))]

\* steps 6 and 7: quantile consistency and the output frame
PeConsistency ==
    /\ pc = "blended"
    /\ lower' = PeLower(preds_low, median)
    /\ upper' = PeUpper(preds_up, median, lower')
    /\ out' = Frame(batch, lower', median, upper')
    /\ pc' = "returned"
    /\ UNCHANGED <<call, batch, weight_tft, models, store, X, preds_low, preds_med,
                   preds_up, spike_adj, spike_adj_scaled, extreme_adj,
                   extreme_adj_scaled, spike_adj_total, tft_pred, median, error,
                   http, log>>
    /\ UNCHANGED <<previous, request, client, monitor>>

----------------------------------------------------------------------------
(* models/ensemble.py predict_ensemble, after the base scorers *)

EnsLower(q10, med) == [i \in DOMAIN q10 |-> Minimum(q10[i], Sub(med[i], EpsInv))]
EnsUpper(q90, med) == [i \in DOMAIN q90 |-> Maximum(q90[i], Add(med[i], EpsInv))]

\* _load_tft_global_model raises when models/global_tft.pt is missing or does
\* not fit; otherwise the medians are blended and the band is clamped by 1.0
EnsBlend ==
    /\ pc = "base_scored"
    /\ DfEnsemble
    /\ \E st \in {"loaded", "missing", "corrupt"} :
        /\ models' = [models EXCEPT !["tft"] = st]
        /\ IF st = "loaded"
           THEN /\ tft_pred' = ScoreTft(X)
                /\ median' = Blend(weight_tft, tft_pred', preds_med)
                /\ lower' = EnsLower(preds_low, median')
                /\ upper' = EnsUpper(preds_up, median')
                /\ out' = Frame(batch, lower', median', upper')
                /\ log' = log \o <<LoadEv("tft"), ScoreEv("tft")>>
                /\ pc' = "returned"
                /\ UNCHANGED error
           ELSE /\ Raise(IF st = "missing" THEN "FileNotFoundError" ELSE "RuntimeError")
                /\ log' = Append(log, LoadEv("tft"))
                /\ UNCHANGED <<tft_pred, median, lower, upper>>
    /\ UNCHANGED <<call, batch, weight_tft, store, X, preds_low, preds_med, preds_up,
                   spike_adj, spike_adj_scaled, extreme_adj, extreme_adj_scaled,
                   spike_adj_total, http>>
    /\ UNCHANGED <<previous, request, client, monitor>>

----------------------------------------------------------------------------
(* api_server.py: the response of POST /predict *)

\* success with the records of the frame; ValueError gives 400, any other
\* exception 500, both with an error body and no predictions
ApiRespond ==
    /\ call.api
    /\ pc \in {"returned", "failed"}
    /\ http.status = 0
    /\ http' = IF pc = "returned"
               THEN [status |-> 200, count |-> Len(out), error |-> FALSE]
               ELSE [status |-> IF error = "ValueError" THEN 400 ELSE 500,
                     count |-> 0, error |-> TRUE]
    /\ UNCHANGED <<pc, call, batch, weight_tft, models, store, X, preds_low,
                   preds_med, preds_up, spike_adj, spike_adj_scaled, extreme_adj,
                   extreme_adj_scaled, spike_adj_total, tft_pred, median, lower,
                   upper, out, error, log>>
    /\ UNCHANGED <<previous, request, client, monitor>>

----------------------------------------------------------------------------

Next ==
    \/ BuildFeatures
    \/ LoadBase
    \/ ScoreBase
    \/ Stage1
    \/ Stage2
    \/ ApplyAdjustment
    \/ Widen
    \/ Clamp
    \/ DfReturnXgb
    \/ DfTft
    \/ PeLoadTft
    \/ PeBlend
    \/ PeConsistency
    \/ EnsBlend
    \/ ApiRespond

Spec == Init /\ [][Next]_vars

----------------------------------------------------------------------------
(* A process that serves several calls one after the other.  Nothing is     *)
(* kept between two calls: every function loads its artifacts inside its   *)
(* body, there is no module-level cache.                                   *)

\* the batches submitted first: one row, or that row followed by ordinary
\* rows, all of the same kind, up to one more than the small-batch limit
ProcessBatches ==
    {[i \in 1..n |-> [date |-> i, feat |-> IF i = 1 THEN f ELSE g]] :
        f \in FeatureIds, g \in {PadFeature, NegPadFeature}, n \in {1, SmallBatchMax + 1}}

InitProcess ==
    /\ pc = "start"
    /\ call \in Calls
    /\ batch \in ProcessBatches
    /\ weight_tft = DefaultWeight
    /\ models = [n \in ScorerNames |-> "unloaded"]
    /\ store = "unknown"
    /\ X = <<>>
    /\ preds_low = <<>>
    /\ preds_med = <<>>
    /\ preds_up = <<>>
    /\ spike_adj = <<>>
    /\ spike_adj_scaled = <<>>
    /\ extreme_adj = <<>>
    /\ extreme_adj_scaled = <<>>
    /\ spike_adj_total = <<>>
    /\ tft_pred = <<>>
    /\ median = <<>>
    /\ lower = <<>>
    /\ upper = <<>>
    /\ out = <<>>
    /\ error = ""
    /\ http = NoResponse
    /\ log = <<>>
    /\ previous = NoPrevious
    /\ request = AcceptedRequest
    /\ client = IdleClient
    /\ monitor = IdleMonitor

\* the first row of a batch submitted on its own
FirstRowAlone(b) == <<b[1]>>

\* the entry point of the next call: the same one, or, for an ensemble
\* prediction, any of the ensemble entry points
NextCalls(c) == {c} \cup {d \in Calls : c.mode = "ensemble" /\ d.mode = "ensemble"}

\* the finished call is over and the same caller makes the next one, with the
\* same batch or with its first row alone; every local of the call is gone
NextCall ==
    /\ pc \in {"returned", "failed"}
    /\ call.api => http.status # 0
    /\ previous.index + 2 <= MaxCalls
    /\ previous' = [index |-> previous.index + 1, call |-> call, batch |-> batch,
                    models |-> models, store |-> store, log |-> log,
                    spike_adj_scaled |-> spike_adj_scaled, out |-> out,
                    failed |-> pc = "failed"]
    /\ batch' \in {batch, FirstRowAlone(batch)}
    /\ pc' = "start"
    /\ models' = [n \in ScorerNames |-> "unloaded"]
    /\ store' = "unknown"
    /\ X' = <<>>
    /\ preds_low' = <<>>
    /\ preds_med' = <<>>
    /\ preds_up' = <<>>
    /\ spike_adj' = <<>>
    /\ spike_adj_scaled' = <<>>
    /\ extreme_adj' = <<>>
    /\ extreme_adj_scaled' = <<>>
    /\ spike_adj_total' = <<>>
    /\ tft_pred' = <<>>
    /\ median' = <<>>
    /\ lower' = <<>>
    /\ upper' = <<>>
    /\ out' = <<>>
    /\ error' = ""
    /\ http' = NoResponse
    /\ log' = <<>>
    /\ call' \in NextCalls(call)
    /\ UNCHANGED <<weight_tft, request, client, monitor>>

NextProcess ==
    \/ Next
    \/ NextCall

SpecProcess == InitProcess /\ [][NextProcess]_vars

----------------------------------------------------------------------------
(* The HTTP API alone: any request body arrives at POST /predict *)

InitApi ==
    /\ pc = "start"
    /\ call \in {c \in Calls : c.api}
    /\ batch \in ProcessBatches
    /\ weight_tft = DefaultWeight
    /\ models = [n \in ScorerNames |-> "unloaded"]
    /\ store = "unknown"
    /\ X = <<>>
    /\ preds_low = <<>>
    /\ preds_med = <<>>
    /\ preds_up = <<>>
    /\ spike_adj = <<>>
    /\ spike_adj_scaled = <<>>
    /\ extreme_adj = <<>>
    /\ extreme_adj_scaled = <<>>
    /\ spike_adj_total = <<>>
    /\ tft_pred = <<>>
    /\ median = <<>>
    /\ lower = <<>>
    /\ upper = <<>>
    /\ out = <<>>
    /\ error = ""
    /\ http = NoResponse
    /\ log = <<>>
    /\ previous = NoPrevious
    /\ request \in Requests
    /\ client = IdleClient
    /\ monitor = IdleMonitor

NextApi ==
    \/ ApiReject
    \/ BuildFeatures
    \/ LoadBase
    \/ ScoreBase
    \/ Stage1
    \/ Stage2
    \/ ApplyAdjustment
    \/ Widen
    \/ Clamp
    \/ DfReturnXgb
    \/ DfTft
    \/ PeLoadTft
    \/ PeBlend
    \/ PeConsistency
    \/ ApiRespond

SpecApi == InitApi /\ [][NextApi]_vars

----------------------------------------------------------------------------
(* agents/prediction_client.py: PredictionClient.predict *)

\* the variables of the prediction service, which the agents leave alone
predictorVars ==
    <<pc, call, batch, weight_tft, models, store, X, preds_low, preds_med,
      preds_up, spike_adj, spike_adj_scaled, extreme_adj, extreme_adj_scaled,
      spike_adj_total, tft_pred, median, lower, upper, out, error, http, log,
      previous, request>>

\* no prediction call is running in this process
NoCall ==
    /\ pc = "idle"
    /\ call = [api |-> FALSE, fn |-> "", mode |-> ""]
    /\ batch = <<>>
    /\ weight_tft = DefaultWeight
    /\ models = [n \in ScorerNames |-> "unloaded"]
    /\ store = "unknown"
    /\ X = <<>>
    /\ preds_low = <<>>
    /\ preds_med = <<>>
    /\ preds_up = <<>>
    /\ spike_adj = <<>>
    /\ spike_adj_scaled = <<>>
    /\ extreme_adj = <<>>
    /\ extreme_adj_scaled = <<>>
    /\ spike_adj_total = <<>>
    /\ tft_pred = <<>>
    /\ median = <<>>
    /\ lower = <<>>
    /\ upper = <<>>
    /\ out = <<>>
    /\ error = ""
    /\ http = NoResponse
    /\ log = <<>>
    /\ previous = NoPrevious
    /\ request = AcceptedRequest

\* a backoff list with one more entry
BackoffLonger == <<0, 3, 8, 15, 30>>

\* backoff = [0, 3, 8, 15]: seconds slept before each attempt
Backoff == <<0, 3, 8, 15>>

\* "predictions" of a response body: the rows the API returns, of which the
\* client reads the median of the first
PredictionLists ==
    {<<>>, <<[median |-> U(130)]>>, <<[median |-> NaN]>>,
     <<[median |-> U(130)], [median |-> U(90)]>>}

\* what one client.post(url, json = payload) ends in: httpx.TimeoutException,
\* another httpx.HTTPError of the transport, or a response
Responses ==
    {[kind |-> k, status |-> 0, predictions |-> <<>>] : k \in {"timeout", "transport"}}
    \cup {[kind |-> "response", status |-> 200, predictions |-> p] : p \in PredictionLists}
    \cup {[kind |-> "response", status |-> st, predictions |-> <<>>] :
            st \in {400, 404, 500, 503}}

\* every failure is retried
OutcomeRetryAll(resp, attempt) ==
    IF resp.kind = "response" /\ resp.status = 200 /\ resp.predictions # <<>>
    THEN "return" ELSE "continue"

\* the try block and the except clauses of one loop iteration: "return" the
\* median, "continue" with the next attempt, "raise" the exception, or
\* "fall" out of the except clause to the end of the loop body
Outcome(resp, attempt) ==
    IF resp.kind = "timeout"
    THEN IF attempt < Len(Backoff) THEN "continue" ELSE "fall"
    ELSE IF resp.kind = "response" /\ resp.status >= 400
    THEN IF resp.status >= 500 THEN "continue" ELSE "raise"
    ELSE IF resp.kind = "transport" \/ resp.predictions = <<>>
    THEN IF attempt < Len(Backoff) THEN "continue" ELSE "fall"
    ELSE "return"

\* the exception an attempt leaves in last_error
ErrorOf(resp) ==
    IF resp.kind = "timeout" THEN "TimeoutException"
    ELSE IF resp.kind = "transport" THEN "HTTPError"
    ELSE IF resp.status >= 400 THEN "HTTPStatusError"
    ELSE IF resp.predictions = <<>> THEN "ValueError"
    ELSE ""

\* predict starts with _wake_up_service, which returns False on any exception;
\* the result is only printed
WakeUpService ==
    /\ client.pc = "idle"
    /\ \E ok \in BOOLEAN :
        client' = [client EXCEPT !.pc = "loop",
                                 !.health = IF ok THEN "ok" ELSE "failed"]
    /\ UNCHANGED predictorVars
    /\ UNCHANGED monitor

\* one iteration of "for attempt, delay in enumerate(backoff, 1)": the sleep,
\* the POST and what follows it; after the last iteration the loop ends and
\* RuntimeError is raised
ClientAttempt ==
    /\ client.pc = "loop"
    /\ client.attempt < Len(Backoff)
    /\ \E resp \in Responses :
        LET attempt == client.attempt + 1
            delay   == Backoff[attempt]
            what    == Outcome(resp, attempt)
            tried   == [client EXCEPT
                          !.attempt = attempt,
                          !.slept = IF delay # 0 THEN Append(@, delay) ELSE @,
                          !.posts = Append(@, resp),
                          !.last_error = IF ErrorOf(resp) # "" THEN ErrorOf(resp) ELSE @]
        IN  client' =
                IF what = "return"
                THEN [tried EXCEPT !.pc = "returned", !.median = resp.predictions[1].median]
                ELSE IF what = "raise"
                THEN [tried EXCEPT !.pc = "raised", !.raised = ErrorOf(resp)]
                ELSE IF attempt = Len(Backoff)
                THEN [tried EXCEPT !.pc = "raised", !.raised = "RuntimeError"]
                ELSE tried
    /\ UNCHANGED predictorVars
    /\ UNCHANGED monitor

InitClient ==
    /\ NoCall
    /\ client = IdleClient
    /\ monitor = IdleMonitor

NextClient ==
    \/ WakeUpService
    \/ ClientAttempt

\* predict runs to its end: the health check and every POST have a timeout
\* of 60 s and every sleep is finite
SpecClient == InitClient /\ [][NextClient]_vars /\ WF_vars(NextClient)

----------------------------------------------------------------------------
(* agents/monitor_agent.py and LLMClient.generate_structured *)

AqiCritical == 300
AqiHigh == 200
AqiModerate == 150

\* thresholds on festival_score and weather_risk, in hundredths
FestivalThreshold == 60
WeatherThreshold == 60

\* MonitorInput: aqi >= 0, festival_score and weather_risk in [0, 1], the
\* scores in hundredths
AqiValues == {0, 149, 150, 199, 200, 299, 300, 500}
ScoreValues == {0, 60, 61, 100}

MonitorInputs ==
    [aqi : AqiValues, festival_score : ScoreValues, weather_risk : ScoreValues]

AlertLevels == {"low", "moderate", "high", "critical"}
Urgencies == {"monitor", "prepare", "activate surge", "emergency"}

\* what the schema MonitorOutput accepts
MonitorOutputs ==
    [alertLevel : AlertLevels, riskFactors : {<<>>, <<"AQI > 200">>},
     recommendedUrgency : Urgencies]

\* a fallback in which a festival or bad weather raises any level by one step
\* and leaves the urgency
RuleBasedFallbackEscalating(inputs) ==
    LET base == IF inputs.aqi >= AqiCritical THEN "critical"
                ELSE IF inputs.aqi >= AqiHigh THEN "high"
                ELSE IF inputs.aqi >= AqiModerate THEN "moderate"
                ELSE "low"
        up   == inputs.festival_score > FestivalThreshold
                    \/ inputs.weather_risk > WeatherThreshold
        step == [low |-> "moderate", moderate |-> "high", high |-> "critical",
                 critical |-> "critical"]
        urg  == [low |-> "monitor", moderate |-> "prepare", high |-> "activate surge",
                 critical |-> "emergency"]
    IN  [alertLevel |-> IF up THEN step[base] ELSE base,
         riskFactors |-> <<"risk">>,
         recommendedUrgency |-> urg[base]]

\* _rule_based_fallback
RuleBasedFallback(inputs) ==
    LET aqi      == inputs.aqi
        festival == inputs.festival_score
        weather  == inputs.weather_risk
        alert0   == IF aqi >= AqiCritical THEN "critical"
                    ELSE IF aqi >= AqiHigh THEN "high"
                    ELSE IF aqi >= AqiModerate THEN "moderate"
                    ELSE "low"
        urgency0 == IF aqi >= AqiCritical THEN "emergency"
                    ELSE IF aqi >= AqiHigh THEN "activate surge"
                    ELSE IF aqi >= AqiModerate THEN "prepare"
                    ELSE "monitor"
        factors0 == IF aqi >= AqiCritical THEN <<"AQI >= 300 (hazardous air quality)">>
                    ELSE IF aqi >= AqiHigh THEN <<"AQI >= 200 (very unhealthy)">>
                    ELSE IF aqi >= AqiModerate THEN <<"AQI >= 150 (unhealthy)">>
                    ELSE <<>>
        fest     == festival > FestivalThreshold
        alert1   == IF fest /\ alert0 = "low" THEN "moderate" ELSE alert0
        urgency1 == IF fest /\ alert0 = "low" THEN "prepare" ELSE urgency0
        factors1 == IF fest THEN Append(factors0, "Major festival / crowding risk")
                    ELSE factors0
        bad      == weather > WeatherThreshold
        alert2   == IF bad /\ alert1 = "low" THEN "moderate" ELSE alert1
        urgency2 == IF bad /\ alert1 = "low" THEN "prepare" ELSE urgency1
        factors2 == IF bad THEN Append(factors1, "Adverse weather conditions")
                    ELSE factors1
    IN  [alertLevel |-> alert2,
         riskFactors |-> IF factors2 = <<>> THEN <<"No major risk factors detected">>
                         ELSE factors2,
         recommendedUrgency |-> urgency2]

\* what the LLM call and the parsing of its output end in: the invocation
\* raises, the text parses, the text holds no JSON, the extracted JSON does
\* not load, it loads and validates, it loads and fails validation
LlmResults == {"invoke_error", "parsed", "no_json", "bad_json", "repaired", "invalid"}

\* the exception raised inside the try block of generate_structured
RaisedInside(res) ==
    CASE res = "invoke_error" -> "ConnectionError"
      [] res = "no_json"      -> "OutputParserException"
      [] res = "bad_json"     -> "OutputParserException"
      [] res = "invalid"      -> "ValidationError"
      [] OTHER                -> ""

\* "except Exception as e: raise OutputParserException(error_msg) from e"
Wrap(exc) == IF exc = "" THEN "" ELSE "OutputParserException"

\* llm_client.generate_structured: it returns the parsed answer or raises
GenerateStructured ==
    /\ monitor.pc = "start"
    /\ \E res \in LlmResults, ans \in MonitorOutputs :
        monitor' = [monitor EXCEPT
                      !.pc = "generated",
                      !.exception = Wrap(RaisedInside(res)),
                      !.answer = IF RaisedInside(res) = "" THEN ans ELSE <<>>]
    /\ UNCHANGED predictorVars
    /\ UNCHANGED client

\* run_monitor_agent: the answer is returned, OutputParserException gives the
\* rule-based fallback, any other exception propagates
MonitorReturn ==
    /\ monitor.pc = "generated"
    /\ monitor' =
        IF monitor.exception = ""
        THEN [monitor EXCEPT !.pc = "returned", !.output = monitor.answer]
        ELSE IF monitor.exception = "OutputParserException"
        THEN [monitor EXCEPT !.pc = "returned", !.fallback = TRUE,
                             !.output = RuleBasedFallback(monitor.inputs)]
        ELSE [monitor EXCEPT !.pc = "raised"]
    /\ UNCHANGED predictorVars
    /\ UNCHANGED client

InitMonitor ==
    /\ NoCall
    /\ client = IdleClient
    /\ \E i \in MonitorInputs : monitor = [IdleMonitor EXCEPT !.pc = "start", !.inputs = i]

NextMonitor ==
    \/ GenerateStructured
    \/ MonitorReturn

SpecMonitor == InitMonitor /\ [][NextMonitor]_vars

----------------------------------------------------------------------------
(* Properties *)

N == Len(batch)

\* raw scorer outputs on the features of input row i
Raw10(i)    == U(Q10Raw[batch[i].feat])
Raw50(i)    == U(Q50Raw[batch[i].feat])
Raw90(i)    == U(Q90Raw[batch[i].feat])
RawSpike(i) == U(SpikeRaw[batch[i].feat])
RawTft(i)   == TftRaw[batch[i].feat]

Half == EpsInv \div 2

Finite(r) == ~IsNaN(r.lower) /\ ~IsNaN(r.median) /\ ~IsNaN(r.upper)

Scored(who) == \E k \in DOMAIN log : log[k] = ScoreEv(who)

\* C1: every row returned by ensemble_predictor.predict_ensemble has
\* lower <= median and upper >= median, whichever optional models are present
\* and whatever the raw scorer outputs are, inverted ones included (rows that
\* hold a NaN are left aside: no order holds of a NaN)
C1_OrderingInvariant ==
    (pc = "returned" /\ call.fn = "pe") =>
        \A i \in DOMAIN out :
            Finite(out[i]) =>
                /\ out[i].lower <= out[i].median
                /\ out[i].upper >= out[i].median

\* C2: in ensemble_predictor.predict_ensemble the run with the secondary
\* median model returns the lower and upper that the run without it returns on
\* the same batch and scorers, and the run without it returns the unblended
\* base median
C2_GracefulDegradation ==
    (pc = "returned" /\ call.fn = "pe") =>
        LET without == XgbOnlyFrame(batch, preds_low, preds_med, preds_up)
        IN  \A i \in DOMAIN out :
                IF models["tft"] = "loaded"
                THEN /\ out[i].lower = without[i].lower
                     /\ out[i].upper = without[i].upper
                ELSE out[i].median = preds_med[i]

\* C3: in ensemble_predictor.predict_ensemble, a row with zero correction from
\* both stages and no secondary median model, whose offset values are ordered,
\* is returned as (q10_raw - 0.5, q50_raw, q90_raw + 0.5)
C3_FixedMargins ==
    (pc = "returned" /\ call.fn = "pe" /\ models["tft"] = "none") =>
        \A i \in DOMAIN out :
            (/\ spike_adj_total[i] = 0
             /\ Raw10(i) - Half <= Raw50(i)
             /\ Raw50(i) <= Raw90(i) + Half) =>
                /\ out[i].lower = Raw10(i) - Half
                /\ out[i].median = Raw50(i)
                /\ out[i].upper = Raw90(i) + Half

\* the triple of row i after only the fixed margins and the 1e-6 clamp, the
\* expressions q50_raw -/+ 1e-6 evaluated in the arithmetic of the arrays
MarginsAndClamp(i) ==
    [lower  |-> Minimum(Raw10(i) - Half, SubEps(Raw50(i))),
     median |-> Raw50(i),
     upper  |-> Maximum(Raw90(i) + Half, AddEps(Raw50(i)))]

BaseNames == {"q10", "q50", "q90"}

\* C5: when one of the three mandatory base scorers is not found, the call has
\* failed with an error, nothing is returned, no scorer of any kind has been
\* invoked, and POST /predict answers with an error and no predictions
C5_MissingMandatoryIsFatal ==
    (\E n \in BaseNames : models[n] = "missing") =>
        /\ pc = "failed"
        /\ error # ""
        /\ out = <<>>
        /\ \A k \in DOMAIN log : log[k][1] # "score"
        /\ preds_low = <<>> /\ preds_med = <<>> /\ preds_up = <<>>
        /\ http.status # 200
        /\ http.count = 0

\* C5 witness: predict_df found q50 but not q10, and the handler has answered 500
C5_Witness ==
    /\ call.fn = "df"
    /\ call.api
    /\ models["q50"] = "loaded"
    /\ models["q10"] = "missing"
    /\ pc = "failed"
    /\ http.status = 500

\* C6: in ensemble_predictor.predict_ensemble an optional scorer whose artifact
\* is missing or fails to load never ends the call: the call returns one
\* triple per row, a missing booster contributes nothing and a missing
\* secondary median model leaves the median unblended
C6_OptionalScorerDegrades ==
    call.fn = "pe" =>
        /\ models["tft"] \in {"none", "corrupt"} =>
              /\ pc = "returned"
              /\ Len(out) = N
              /\ \A i \in 1..N : out[i].median = preds_med[i]
        /\ (models["spike"] = "none" /\ models["extreme"] = "none"
              /\ pc \in {"stage2", "corrected", "returned"}) =>
              \A i \in 1..N : spike_adj_total[i] = 0
        /\ pc = "failed" =>
              \A n \in {"spike", "extreme", "tft"} : models[n] \in {"unloaded", "loaded"}

\* the invoked scorers whose output holds a NaN
NaNScorers ==
    {n \in {"tft"} : Scored(n) /\ \E i \in DOMAIN tft_pred : IsNaN(tft_pred[i])}

\* C7: when a scorer fails on the batch or returns NaN for some row, the call
\* fails: no row is returned and POST /predict answers with an error and no
\* predictions
C7_ScoringErrorFailsBatch ==
    /\ (error \in {"ValueError", "TypeError"} /\ Scored(ScoreOrder[1])) =>
          /\ pc = "failed"
          /\ out = <<>>
          /\ http.status # 200
          /\ http.count = 0
    /\ (call.fn = "pe" /\ NaNScorers # {}) =>
          /\ pc # "returned"
          /\ out = <<>>
          /\ http.status # 200

RawExtreme(i) == U(ExtremeRaw[batch[i].feat])

\* the corrections of row i come from row i's features: the raw value is the
\* scorer's output on them and the scaled value is a tier multiple of it
RowCorrection(i) ==
    /\ models["spike"] = "loaded" =>
          /\ spike_adj[i] = RawSpike(i)
          /\ \E m \in {2, 4, 6, 8} : spike_adj_scaled[i] = MulFrac(RawSpike(i), m, 2)
    /\ models["extreme"] = "loaded" =>
          /\ extreme_adj[i] = RawExtreme(i)
          /\ \E m \in {2, 10, 13, 16} : extreme_adj_scaled[i] = MulFrac(RawExtreme(i), m, 2)
    /\ spike_adj_total[i] =
          (IF models["spike"] = "loaded" THEN spike_adj_scaled[i] ELSE 0)
          + (IF models["extreme"] = "loaded" THEN extreme_adj_scaled[i] ELSE 0)

RowOffset == IF call.fn = "pe" THEN 0 ELSE Half

\* row i after the additive correction
RowLow0(i) == Raw10(i) - RowOffset + spike_adj_total[i]
RowMed0(i) == Raw50(i) + spike_adj_total[i]
RowUp0(i)  == Raw90(i) + RowOffset + spike_adj_total[i]

\* the widening threshold of the batch: the 90th percentile of the corrected
\* medians, or 200 for a small batch
RowThreshold ==
    IF N > SmallBatchMax
    THEN Percentile([j \in 1..N |-> RowMed0(j)], 90)
    ELSE U(WidenAbs)

RowWidened(i, thr) ==
    /\ Cascade
    /\ \E j \in 1..N : spike_adj_total[j] # 0
    /\ RowMed0(i) > thr

RowCenter(i) == (RowUp0(i) + RowLow0(i)) \div 2
RowHalfWidth15(i) == ((RowUp0(i) - RowLow0(i)) \div 4) * 3

RowLow1(i, thr) == IF RowWidened(i, thr) THEN RowCenter(i) - RowHalfWidth15(i) ELSE RowLow0(i)
RowUp1(i, thr)  == IF RowWidened(i, thr) THEN RowCenter(i) + RowHalfWidth15(i) ELSE RowUp0(i)

RowBlend(w, i) == Add(MulFrac(RawTft(i), w, 10), MulFrac(RowMed0(i), 10 - w, 10))

\* the record the call owes to input row i, computed from row i alone and the
\* batch-level thresholds
RowRecord(i, thr) ==
    CASE call.fn = "df" /\ call.mode = "xgb" ->
            [date |-> batch[i].date,
             lower |-> Minimum(RowLow1(i, thr), SubEps(RowMed0(i))),
             median |-> RowMed0(i),
             upper |-> Maximum(RowUp1(i, thr), AddEps(RowMed0(i)))]
      [] call.fn = "df" /\ call.mode = "tft" ->
            [date |-> batch[i].date,
             lower |-> Minimum(RowLow1(i, thr), SubEps(RowMed0(i))),
             median |-> RowBlend(DfTftWeight, i),
             upper |-> Maximum(RowUp1(i, thr), AddEps(RowMed0(i)))]
      [] call.fn = "df" /\ call.mode = "ensemble" ->
            LET m == RowBlend(weight_tft, i)
            IN  [date |-> batch[i].date,
                 lower |-> Minimum(RowLow0(i), Sub(m, EpsInv)),
                 median |-> m,
                 upper |-> Maximum(RowUp0(i), Add(m, EpsInv))]
      [] call.fn = "pe" /\ models["tft"] = "none" ->
            [date |-> batch[i].date,
             lower |-> RowLow1(i, thr),
             median |-> RowMed0(i),
             upper |-> RowUp1(i, thr)]
      [] OTHER ->
            LET m  == RowBlend(weight_tft, i)
                lo == Minimum(RowLow1(i, thr) - PeBandMargin, Sub(m, PeMedMargin))
            IN  [date |-> batch[i].date,
                 lower |-> lo,
                 median |-> m,
                 upper |-> Maximum(Maximum(RowUp1(i, thr) + PeBandMargin, Add(m, PeMedMargin)),
                                   Add(lo, PeGap))]

\* C8: a successful call returns exactly one record per input row, in input
\* order; the record at position i carries the date of row i and the lower,
\* median and upper computed from the features of row i
C8_OneRecordPerRowInOrder ==
    pc = "returned" =>
        /\ Len(out) = N
        /\ LET thr == RowThreshold
           IN  \A i \in 1..N :
                   /\ RowCorrection(i)
                   /\ out[i] = RowRecord(i, thr)
        /\ http.status = 200 => http.count = N

\* C8 witness: a cascade call has returned a percentile-sized batch given newest
\* first, whose first two rows differ, with a corrected and a widened row
C8_Witness ==
    /\ pc = "returned"
    /\ Cascade
    /\ N > SmallBatchMax
    /\ batch[1].date > batch[2].date
    /\ batch[1].feat # batch[2].feat
    /\ \E i \in 1..N : spike_adj_total[i] # 0 /\ RowWidened(i, RowThreshold)
    /\ \E i \in 1..N : out[i].median # out[1].median

\* the small-batch tier of a raw stage-1 correction c
SmallBatchTier(c) ==
    IF Gt(c, U(SpikeAbs2)) THEN MulFrac(c, 4, 1)
    ELSE IF Gt(c, U(SpikeAbs1)) THEN MulFrac(c, 2, 1)
    ELSE c

\* C9: in a batch of 1 to 10 rows no percentile is computed and the cascade
\* does not raise; the scaled stage-1 correction of a row is 4*c1 above 60,
\* 2*c1 above 30 and c1 otherwise; with stage 2 absent that value is the total
\* correction, added to lower, median and upper before widening and clamping
C9_SmallBatchFallback ==
    (Cascade /\ N <= SmallBatchMax) =>
        /\ \A k \in DOMAIN log : log[k][1] # "percentile"
        /\ models["spike"] = "loaded" =>
              /\ Len(spike_adj_scaled) = N
              /\ \A i \in 1..N : spike_adj_scaled[i] = SmallBatchTier(RawSpike(i))
        /\ (models["spike"] = "loaded" /\ models["extreme"] = "none") =>
              /\ \A i \in 1..N : spike_adj_total[i] = SmallBatchTier(RawSpike(i))
              /\ pc = "added" =>
                    \A i \in 1..N :
                        /\ preds_low[i] = BaseLow(X)[i] + SmallBatchTier(RawSpike(i))
                        /\ preds_med[i] = BaseMed(X)[i] + SmallBatchTier(RawSpike(i))
                        /\ preds_up[i] = BaseUp(X)[i] + SmallBatchTier(RawSpike(i))
        /\ (pc = "failed" /\ Scored("q90")) => models["tft"] \in {"missing", "corrupt"}

\* C9 witness: _predict_xgb on a single row with c1 = 70 and stage 2 absent has
\* added total_correction = 280 to (79.5, 120, 160.5) and not yet widened
C9_Witness ==
    /\ call.fn = "df"
    /\ N = 1
    /\ models["spike"] = "loaded"
    /\ models["extreme"] = "none"
    /\ pc = "added"
    /\ spike_adj = <<U(70)>>
    /\ spike_adj_total = <<U(280)>>
    /\ preds_low = <<U(280) + U(80) - Half>>
    /\ preds_med = <<U(400)>>
    /\ preds_up = <<U(280) + U(160) + Half>>

\* twice the cumulative multiplier the stage-1 tiers apply to each row
SpikeMultiplier2 == ScaleSpikeOn([i \in DOMAIN spike_adj |-> 2], spike_adj)

\* C10: when stage 1 has run on a batch of more than 10 rows, of two rows with stage-1 raw
\* corrections c_a < c_b, both above the batch's 90th percentile and only c_b
\* above the 99th, c_b gets the strictly larger cumulative multiplier; the
\* scaled correction of a row is its raw correction times its multiplier
C10_MonotonicEscalation ==
    (pc = "stage1" /\ N > SmallBatchMax /\ models["spike"] = "loaded") =>
        LET p90 == Percentile(spike_adj, 90)
            p99 == Percentile(spike_adj, 99)
            m2  == SpikeMultiplier2
        IN  /\ \A i \in 1..N :
                spike_adj_scaled[i] = MulFrac(spike_adj[i], m2[i], 2)
            /\ \A a, b \in 1..N :
                (/\ spike_adj[a] < spike_adj[b]
                 /\ Gt(spike_adj[a], p90)
                 /\ Gt(spike_adj[b], p90)
                 /\ Gt(spike_adj[b], p99)
                 /\ ~Gt(spike_adj[a], p99)) =>
                    m2[b] > m2[a]

\* C10 witness: a batch of more than 10 rows holds two rows above the 90th
\* percentile of the stage-1 corrections, one of them above the 99th
C10_Witness ==
    /\ pc = "stage1"
    /\ N > SmallBatchMax
    /\ models["spike"] = "loaded"
    /\ \E a, b \in 1..N :
        /\ spike_adj[a] < spike_adj[b]
        /\ Gt(spike_adj[a], Percentile(spike_adj, 90))
        /\ Gt(spike_adj[a], Percentile(spike_adj, 95))
        /\ Gt(spike_adj[b], Percentile(spike_adj, 99))
        /\ ~Gt(spike_adj[a], Percentile(spike_adj, 99))
        /\ spike_adj_scaled[a] = MulFrac(spike_adj[a], 3, 1)
        /\ spike_adj_scaled[b] = MulFrac(spike_adj[b], 4, 1)

\* C11: every row returned by predict_df in mode "xgb" has
\* lower <= median - 1e-6 and upper >= median + 1e-6, whatever the raw scorer
\* outputs, the corrections and the widening were
C11_EpsilonSeparation ==
    (pc = "returned" /\ call.fn = "df" /\ call.mode = "xgb") =>
        \A i \in DOMAIN out :
            /\ out[i].lower <= out[i].median - 1
            /\ out[i].upper >= out[i].median + 1

\* C12: every row returned by predict_df in mode "tft" has
\* lower <= median <= upper, wherever the secondary median estimate lies
\* relative to the base quantiles (rows that hold a NaN are left aside)
C12_TftModeOrdering ==
    (pc = "returned" /\ call.fn = "df" /\ call.mode = "tft") =>
        \A i \in DOMAIN out :
            Finite(out[i]) =>
                /\ out[i].lower <= out[i].median
                /\ out[i].median <= out[i].upper

\* the blend weight was used: predict_ensemble of ensemble_predictor.py or of
\* models/ensemble.py has computed its blended median
WeightUsed == Scored("tft") /\ (call.fn = "pe" \/ DfEnsemble)

\* C13: a blend weight that an entry point accepts and blends with lies in
\* [0, 1], so the blended median lies between the secondary and the base
\* median, ends included; the default weight is 0.6
C13_WeightInUnitInterval ==
    /\ DefaultWeight = 6
    /\ WeightUsed =>
          /\ weight_tft \in 0..10
          /\ \A i \in DOMAIN median :
                ~IsNaN(median[i]) =>
                    \/ tft_pred[i] <= median[i] /\ median[i] <= preds_med[i]
                    \/ preds_med[i] <= median[i] /\ median[i] <= tft_pred[i]

\* the raw corrections of the batch, one per input row
RawSpikes   == [i \in 1..N |-> RawSpike(i)]
RawExtremes == [i \in 1..N |-> RawExtreme(i)]

\* c times the multiplier of its percentile tier, the multipliers in halves
PercentileTier(c, p90, p95, p99, m90, m95, m99) ==
    IF c > p99 THEN MulFrac(c, m99, 2)
    ELSE IF c > p95 THEN MulFrac(c, m95, 2)
    ELSE IF c > p90 THEN MulFrac(c, m90, 2)
    ELSE c

\* C14: in a batch of more than 10 rows the scaled stage-1 correction of a row
\* is m*c1 with m = 4 above p99, 3 above p95, 2 above p90 and 1 otherwise, the
\* percentiles taken over the raw c1 of the same batch; a row at or below p90
\* keeps c1
C14_Stage1PercentileTiers ==
    (pc = "stage1" /\ N > SmallBatchMax /\ models["spike"] = "loaded") =>
        LET p90 == Percentile(RawSpikes, 90)
            p95 == Percentile(RawSpikes, 95)
            p99 == Percentile(RawSpikes, 99)
        IN  /\ Len(spike_adj_scaled) = N
            /\ \A i \in 1..N :
                /\ spike_adj_scaled[i] = PercentileTier(RawSpike(i), p90, p95, p99, 4, 6, 8)
                /\ \E m \in 1..4 : spike_adj_scaled[i] = m * RawSpike(i)
                /\ RawSpike(i) <= p90 => spike_adj_scaled[i] = RawSpike(i)

\* C14 witness: stage 1 has scaled a batch of more than 10 rows in which one
\* row kept its correction, one got 2x and one 4x
C14_Witness ==
    /\ pc = "stage1"
    /\ N > SmallBatchMax
    /\ models["spike"] = "loaded"
    /\ LET p90 == Percentile(spike_adj, 90)
           p99 == Percentile(spike_adj, 99)
       IN  \E i, j, k \in 1..N :
               /\ spike_adj[i] > 0 /\ spike_adj[i] <= p90
               /\ spike_adj_scaled[i] = spike_adj[i]
               /\ spike_adj[j] > p90
               /\ spike_adj_scaled[j] = 2 * spike_adj[j]
               /\ spike_adj[k] > p99
               /\ spike_adj_scaled[k] = 4 * spike_adj[k]

\* the small-batch tier of a raw stage-2 correction c
SmallBatchTier2(c) ==
    IF c > U(ExtremeAbs2) THEN 8 * c
    ELSE IF c > U(ExtremeAbs1) THEN 5 * c
    ELSE c

\* what stage 1 alone contributes to the total correction of row i
Stage1Share(i) == IF models["spike"] = "loaded" THEN spike_adj_scaled[i] ELSE 0

\* C15: stage 2 scales its own raw output by 5, 6.5 and 8 above p90, p95 and
\* p99 of that output in a batch of more than 10 rows, and by 5 above 20 and
\* 8 above 40 in a batch of at most 10 rows (1 otherwise); when the stage-2
\* scorer is absent it adds exactly zero to the total correction of every row
C15_Stage2Tiers ==
    pc = "stage2" =>
        /\ models["extreme"] = "loaded" =>
              LET p90 == Percentile(RawExtremes, 90)
                  p95 == Percentile(RawExtremes, 95)
                  p99 == Percentile(RawExtremes, 99)
              IN  /\ Len(extreme_adj_scaled) = N
                  /\ \A i \in 1..N :
                        /\ extreme_adj[i] = RawExtreme(i)
                        /\ extreme_adj_scaled[i] =
                              IF N > SmallBatchMax
                              THEN PercentileTier(RawExtreme(i), p90, p95, p99, 10, 13, 16)
                              ELSE SmallBatchTier2(RawExtreme(i))
                        /\ spike_adj_total[i] = Stage1Share(i) + extreme_adj_scaled[i]
        /\ models["extreme"] = "none" =>
              \A i \in 1..N : spike_adj_total[i] = Stage1Share(i)

\* C15 witness: stage 2 has scaled a batch of more than 10 rows in which one
\* row got 6.5x and one 8x, after stage 1 had contributed as well
C15_Witness ==
    /\ pc = "stage2"
    /\ N > SmallBatchMax
    /\ models["spike"] = "loaded"
    /\ models["extreme"] = "loaded"
    /\ \E i, j \in 1..N :
        /\ extreme_adj[i] > 0
        /\ 2 * extreme_adj_scaled[i] = 13 * extreme_adj[i]
        /\ extreme_adj_scaled[j] = 8 * extreme_adj[j]
        /\ spike_adj_total[j] # extreme_adj_scaled[j]

\* the weight the call blends with
CallWeight == IF call.fn = "df" /\ call.mode = "tft" THEN DfTftWeight ELSE weight_tft

\* the median the call returns for row i when no correction is added: the base
\* median, blended with the secondary estimate when the call has one
UncorrectedMedian(i) ==
    IF Scored("tft")
    THEN Add(MulFrac(RawTft(i), CallWeight, 10), MulFrac(Raw50(i), 10 - CallWeight, 10))
    ELSE Raw50(i)

\* C16: the same total correction is added to lower, median and upper of a
\* row, which leaves upper - lower as it was, and the median a cascade call
\* returns exceeds its uncorrected value by exactly the total correction, also
\* when a secondary median model is blended in
C16_UniformAggregation ==
    /\ pc = "added" =>
          \A i \in 1..N :
              /\ preds_low[i] = BaseLow(X)[i] + spike_adj_total[i]
              /\ preds_med[i] = BaseMed(X)[i] + spike_adj_total[i]
              /\ preds_up[i] = BaseUp(X)[i] + spike_adj_total[i]
              /\ preds_up[i] - preds_low[i] = BaseUp(X)[i] - BaseLow(X)[i]
    /\ (pc = "returned" /\ Cascade) =>
          \A i \in 1..N :
              ~IsNaN(out[i].median) =>
                  out[i].median = UncorrectedMedian(i) + spike_adj_total[i]

\* positions of the log at which a scorer of the given set was invoked
ScoredAt(who) == {k \in DOMAIN log : \E n \in who : log[k] = ScoreEv(n)}

\* C17: within one call of ensemble_predictor.predict_ensemble every scorer is
\* invoked at most once and in the order base scoring, secondary median blend,
\* stage 1, stage 2: the blend is computed before any correction scorer runs
C17_StageOrder ==
    call.fn = "pe" =>
        /\ \A n \in ScorerNames : Cardinality(ScoredAt({n})) <= 1
        /\ \A k \in ScoredAt(BaseNames), l \in ScoredAt({"tft", "spike", "extreme"}) : k < l
        /\ \A k \in ScoredAt({"tft"}), l \in ScoredAt({"spike", "extreme"}) : k < l
        /\ \A k \in ScoredAt({"spike"}), l \in ScoredAt({"extreme"}) : k < l

\* the widening step changed the band of row i
BandChanged(i) == preds_low[i] # RowLow0(i) \/ preds_up[i] # RowUp0(i)

\* row i is above the widening threshold of its batch
AboveThreshold(i, thr) == RowMed0(i) > thr

\* C18 as stated: after the widening step of the cascade the band of a row is
\* widened exactly when its corrected median is strictly above the threshold
\* (the 90th percentile of the corrected medians for more than 10 rows, 200
\* otherwise), whether or not any row received a nonzero correction
C18_WideningSelectionAlways ==
    (pc = "corrected" /\ Cascade) =>
        LET thr == RowThreshold
        IN  \A i \in 1..N : BandChanged(i) <=> AboveThreshold(i, thr)

\* C18, amended: the band of a row is widened exactly when some row of the
\* batch received a nonzero total correction and the row's corrected median is
\* strictly above the threshold; every other row keeps its lower and upper,
\* and in a batch without any nonzero correction no band is widened
C18_WideningSelection ==
    (pc = "corrected" /\ Cascade) =>
        LET thr == RowThreshold
            any == \E j \in 1..N : spike_adj_total[j] # 0
        IN  \A i \in 1..N :
                /\ BandChanged(i) <=> (any /\ AboveThreshold(i, thr))
                /\ ~(any /\ AboveThreshold(i, thr)) =>
                      preds_low[i] = RowLow0(i) /\ preds_up[i] = RowUp0(i)

\* C18 witness: the widening step has run on a batch of more than 10 rows and
\* widened one row while leaving a corrected row below the threshold alone
C18_Witness ==
    /\ pc = "corrected"
    /\ Cascade
    /\ N > SmallBatchMax
    /\ \E i, j \in 1..N :
        /\ BandChanged(i)
        /\ RowMed0(i) > RowThreshold
        /\ spike_adj_total[j] # 0
        /\ ~BandChanged(j)

\* C19: a row selected for widening gets lower' = center - 1.5*half_width and
\* upper' = center + 1.5*half_width, with center and half_width taken before
\* the step: the center is unchanged, the width is 1.5 times the old one and
\* the median is unchanged, also when upper < lower before the step
C19_WideningArithmetic ==
    (pc = "corrected" /\ Cascade) =>
        LET thr == RowThreshold
        IN  \A i \in 1..N :
                RowWidened(i, thr) =>
                    LET center     == (RowUp0(i) + RowLow0(i)) \div 2
                        half_width == (RowUp0(i) - RowLow0(i)) \div 2
                    IN  /\ preds_low[i] = center - (3 * half_width) \div 2
                        /\ preds_up[i] = center + (3 * half_width) \div 2
                        /\ preds_up[i] + preds_low[i] = RowUp0(i) + RowLow0(i)
                        /\ 2 * (preds_up[i] - preds_low[i]) = 3 * (RowUp0(i) - RowLow0(i))
                        /\ preds_med[i] = RowMed0(i)

\* C19 witness: the widening step has widened a row whose upper was below its
\* lower and a row whose band was ordered
C19_Witness ==
    /\ pc = "corrected"
    /\ Cascade
    /\ \E i, j \in 1..N :
        /\ RowWidened(i, RowThreshold)
        /\ RowUp0(i) < RowLow0(i)
        /\ preds_up[i] < RowUp0(i)
        /\ RowWidened(j, RowThreshold)
        /\ RowUp0(j) > RowLow0(j)
        /\ preds_up[j] > RowUp0(j)

\* C20: once the ordering clamp of _predict_xgb has been applied, no step
\* changes lower, median or upper of any row before the result is returned
C20_ClampIsLast ==
    [][pc = "clamped" =>
          /\ preds_low' = preds_low
          /\ preds_med' = preds_med
          /\ preds_up' = preds_up]_vars

\* positions of the log at which the artifact of a scorer was loaded
LoadedAt(n) == {k \in DOMAIN log : log[k] = LoadEv(n)}

\* C21: within one call no scorer is invoked before all three mandatory base
\* scorers have been loaded successfully; each scorer is invoked at most once,
\* over the full batch; a scoring call that failed is not attempted again
C21_LoadBeforeScoreOnce ==
    /\ \A k \in DOMAIN log :
          log[k][1] = "score" =>
              \A n \in BaseNames :
                  /\ models[n] = "loaded"
                  /\ \E j \in LoadedAt(n) : j < k
    /\ \A n \in ScorerNames : Cardinality(ScoredAt({n})) <= 1
    /\ Scored("q90") => Len(preds_low) = N /\ Len(preds_med) = N /\ Len(preds_up) = N
    /\ (Scored("spike") /\ models["spike"] = "loaded") => Len(spike_adj) = N
    /\ (Scored("extreme") /\ models["extreme"] = "loaded") => Len(extreme_adj) = N
    /\ Scored("tft") => Len(tft_pred) = N
    /\ (pc = "failed" /\ error \in {"ValueError", "TypeError"} /\ log # <<>>) =>
          /\ log[Len(log)] = ScoreEv(ScoreOrder[1])
          /\ ~Scored(ScoreOrder[2])

\* C21 witness: a call has returned a batch of several rows after invoking
\* all six scorers
C21_Witness ==
    /\ pc = "returned"
    /\ N > 1
    /\ \A n \in ScorerNames : Cardinality(ScoredAt({n})) = 1

\* artifacts whose file was loaded during the call with the given log
LoadedIn(l) == {n \in ScorerNames : \E k \in DOMAIN l : l[k] = LoadEv(n)}

\* C22: across the calls of one process every model artifact is loaded at
\* most once: a call that follows another call loads no model file
C22_LoadedOncePerProcess ==
    previous.index >= 1 =>
        /\ LoadedIn(previous.log) \cap LoadedIn(log) = {}
        /\ LoadedIn(log) = {}

\* C23: in the modes of predict_df that blend a secondary median, "tft" and
\* "ensemble", the returned median is weight_tft*alt_median +
\* (1 - weight_tft)*base_median with the weight_tft the caller supplied
C23_CallerWeightUsed ==
    (pc = "returned" /\ call.fn = "df" /\ call.mode \in {"tft", "ensemble"}) =>
        \A i \in 1..N :
            out[i].median =
                Add(MulFrac(RawTft(i), weight_tft, 10), MulFrac(RowMed0(i), 10 - weight_tft, 10))

\* the correction stages that ran in the call, each with its raw and its
\* scaled corrections
StagesRun ==
    (IF models["spike"] = "loaded" /\ Len(spike_adj_scaled) = N
     THEN {[raw |-> spike_adj, scaled |-> spike_adj_scaled]} ELSE {})
    \cup (IF models["extreme"] = "loaded" /\ Len(extreme_adj_scaled) = N
          THEN {[raw |-> extreme_adj, scaled |-> extreme_adj_scaled]} ELSE {})

\* C24: within one batch and for each correction stage, two rows with raw
\* corrections c_a <= c_b get scaled corrections s_a <= s_b, in the percentile
\* mode and in the small-batch mode, whatever the sign of the raw corrections
C24_ScaledOrderPreserved ==
    pc \in {"stage1", "stage2"} =>
        \A st \in StagesRun :
            \A a, b \in 1..N :
                st.raw[a] <= st.raw[b] => st.scaled[a] <= st.scaled[b]

\* the calls being compared: the process has finished a call on a batch of
\* more than 10 rows and is now past stage 1 of a call on that batch's first
\* row alone, the stage-1 booster present and stage 2 absent in both
SplitBatchPair ==
    /\ previous.index >= 1
    /\ previous.call = call
    /\ ~previous.failed
    /\ Len(previous.batch) > SmallBatchMax
    /\ N = 1
    /\ batch[1] = previous.batch[1]
    /\ previous.models["spike"] = "loaded"
    /\ previous.models["extreme"] = "none"
    /\ previous.models["tft"] = models["tft"]
    /\ models["spike"] = "loaded"
    /\ models["extreme"] = "none"
    /\ pc = "returned"

\* raw stage-1 corrections of the rows of a batch
RawSpikesOf(b) == [i \in DOMAIN b |-> U(SpikeRaw[b[i].feat])]

\* C25: the scaled correction of a row depends on the batch it is scored in:
\* scored inside a batch of more than 10 rows the row gets its percentile
\* tier, scored alone it gets its absolute tier, and whenever the two tiers
\* differ the scaled corrections and the returned triples of the same row
\* differ between the two calls (a value that is NaN in both calls is left aside)
C25_BatchDependence ==
    SplitBatchPair =>
        LET c       == RawSpike(1)
            big     == RawSpikesOf(previous.batch)
            inBatch == PercentileTier(c, Percentile(big, 90), Percentile(big, 95),
                                      Percentile(big, 99), 4, 6, 8)
            alone   == SmallBatchTier(c)
        IN  /\ previous.spike_adj_scaled[1] = inBatch
            /\ spike_adj_scaled[1] = alone
            /\ inBatch # alone =>
                  /\ ~IsNaN(out[1].lower) => previous.out[1] # out[1]
                  /\ ~IsNaN(out[1].median) => previous.out[1].median # out[1].median

\* C25 witness: the same row was returned with a 4x correction inside a batch
\* of 11 rows and with a 2x correction when scored alone, by the same call
C25_Witness ==
    /\ SplitBatchPair
    /\ RawSpike(1) > 0
    /\ previous.spike_adj_scaled[1] = 4 * RawSpike(1)
    /\ spike_adj_scaled[1] = 2 * RawSpike(1)
    /\ previous.out[1].date = out[1].date
    /\ previous.out[1].median # out[1].median

\* the calls being compared: predict_df(mode = "ensemble") has finished and
\* the HTTP API's ensemble mode has answered the same batch with the same
\* weight, every artifact both calls looked for being in the same condition
\* and in the same format
EntryPointPair ==
    /\ previous.index >= 1
    /\ previous.call = [api |-> FALSE, fn |-> "df", mode |-> "ensemble"]
    /\ call = [api |-> TRUE, fn |-> "pe", mode |-> "ensemble"]
    /\ previous.batch = batch
    /\ previous.store = store
    /\ \A n \in ScorerNames :
          (previous.models[n] # "unloaded" /\ models[n] # "unloaded")
              => previous.models[n] = models[n]
    /\ http.status # 0

\* C26: predict_df(mode = "ensemble") and the HTTP API's ensemble mode agree:
\* on the same batch, artifacts and weight_tft they succeed or fail together
\* and return the same lower, median and upper for every row
C26_EntryPointsAgree ==
    EntryPointPair =>
        /\ previous.failed <=> pc = "failed"
        /\ ~previous.failed =>
              /\ Len(previous.out) = Len(out)
              /\ \A i \in DOMAIN out :
                    /\ previous.out[i].lower = out[i].lower
                    /\ previous.out[i].median = out[i].median
                    /\ previous.out[i].upper = out[i].upper

\* C27: POST /predict answers 400 and invokes no predictor (no model is
\* loaded, nothing is scored) whenever the body lacks "data", the mode is not
\* one of the three modes or a required column is missing; it answers success
\* only after a predictor returned, with count the number of predictions
C27_ValidationAnswers400 ==
    (call.api /\ http.status # 0) =>
        /\ (request.body # "data" \/ ~request.mode_ok \/ ~request.columns_ok) =>
              /\ http.status = 400
              /\ log = <<>>
              /\ \A n \in ScorerNames : models[n] = "unloaded"
        /\ ~http.error =>
              /\ pc = "returned"
              /\ http.status = 200
              /\ http.count = Len(out)

\* the number of entries of the backoff list
MaxAttempts == 4

\* the response carries a non-empty prediction list
Successful(r) == r.kind = "response" /\ r.status = 200 /\ r.predictions # <<>>

\* a timeout, a transport error, a 5xx status or an empty prediction list
RetriableFailure(r) ==
    \/ r.kind \in {"timeout", "transport"}
    \/ r.kind = "response" /\ r.status >= 500
    \/ r.kind = "response" /\ r.status = 200 /\ r.predictions = <<>>

\* a 4xx status
ClientError(r) == r.kind = "response" /\ r.status >= 400 /\ r.status < 500

ClientDone == client.pc \in {"returned", "raised"}

\* at most 4 POSTs; only the last one can be successful, and then predict has
\* returned the median of its first row; 4 failed attempts raise RuntimeError
AttemptsBounded ==
    LET posts == client.posts
        n     == Len(client.posts)
    IN  /\ n <= MaxAttempts
        /\ \A i \in 1..n : Successful(posts[i]) =>
              /\ i = n
              /\ client.pc = "returned"
              /\ client.median = posts[i].predictions[1].median
        /\ client.pc = "returned" => n >= 1 /\ Successful(posts[n])
        /\ (n = MaxAttempts /\ \A i \in 1..n : RetriableFailure(posts[i])) =>
              /\ client.pc = "raised"
              /\ client.raised = "RuntimeError"

\* C28: PredictionClient.predict terminates after at most 4 POST attempts,
\* whatever the health check returned: it returns the median of the first
\* prediction row at the first successful non-empty response and posts no
\* more, and raises RuntimeError when all 4 attempts fail
C28_TerminatesWithinFourPosts == []AttemptsBounded /\ <>ClientDone

\* C28 witness: the health check failed, three attempts failed and the fourth
\* one returned the median of its first row
C28_Witness ==
    /\ client.health = "failed"
    /\ client.pc = "returned"
    /\ Len(client.posts) = MaxAttempts
    /\ Len(client.posts[MaxAttempts].predictions) = 2
    /\ client.median = client.posts[MaxAttempts].predictions[1].median

\* C29: a 4xx response is not retried, the HTTPStatusError is raised at that
\* attempt; a 5xx status, a timeout, a transport error and an empty
\* prediction list are retried while attempts remain
C29_ClientErrorNotRetried ==
    \A i \in 1..Len(client.posts) :
        /\ ClientError(client.posts[i]) =>
              /\ i = Len(client.posts)
              /\ client.pc = "raised"
              /\ client.raised = "HTTPStatusError"
        /\ (RetriableFailure(client.posts[i]) /\ i < MaxAttempts) =>
              \/ i < Len(client.posts)
              \/ client.pc = "loop"

\* C29 witness: a 503 was retried and the 404 that followed was raised
C29_Witness ==
    /\ Len(client.posts) = 2
    /\ client.posts[1].status = 503
    /\ client.posts[2].status = 404
    /\ client.pc = "raised"
    /\ client.raised = "HTTPStatusError"
    /\ client.slept = <<Backoff[2]>>

\* the matching pairs of alert level and urgency
MatchingPairs ==
    {<<"low", "monitor">>, <<"moderate", "prepare">>, <<"high", "activate surge">>,
     <<"critical", "emergency">>}

\* position of an alert level in the order low < moderate < high < critical
Rank(level) ==
    CASE level = "low" -> 0
      [] level = "moderate" -> 1
      [] level = "high" -> 2
      [] level = "critical" -> 3

\* the LLM call or the parsing of its output failed in this call
LlmFailed == monitor.exception # ""

\* C30: run_monitor_agent returns a MonitorOutput for every failure of the LLM
\* call or of parsing (no exception leaves it); the rule-based fallback output
\* has a matching (alertLevel, recommendedUrgency) pair and a non-empty
\* riskFactors list, its alert level does not decrease when AQI grows, and a
\* festival or weather risk raises it only from low to moderate
C30_FallbackAlwaysAnswers ==
    /\ monitor.pc # "raised"
    /\ (monitor.pc = "returned" /\ LlmFailed) =>
          /\ monitor.fallback
          /\ monitor.output.alertLevel \in AlertLevels
          /\ monitor.output.recommendedUrgency \in Urgencies
    /\ (monitor.pc = "returned" /\ monitor.fallback) =>
          LET o    == monitor.output
              in   == monitor.inputs
              calm == RuleBasedFallback([in EXCEPT !.festival_score = 0,
                                                   !.weather_risk = 0]).alertLevel
          IN  /\ <<o.alertLevel, o.recommendedUrgency>> \in MatchingPairs
              /\ o.riskFactors # <<>>
              /\ \A a \in AqiValues :
                    a >= in.aqi =>
                        Rank(RuleBasedFallback([in EXCEPT !.aqi = a]).alertLevel)
                            >= Rank(o.alertLevel)
              /\ \/ o.alertLevel = calm
                 \/ calm = "low" /\ o.alertLevel = "moderate"

\* C30 witness: the LLM output could not be parsed, and the fallback raised a
\* low AQI level to moderate because of a festival
C30_Witness ==
    /\ monitor.pc = "returned"
    /\ LlmFailed
    /\ monitor.fallback
    /\ monitor.inputs.aqi < AqiModerate
    /\ monitor.inputs.festival_score > FestivalThreshold
    /\ monitor.output.alertLevel = "moderate"
    /\ monitor.output.recommendedUrgency = "prepare"

====
